---------------------------- MODULE Spec2Model ----------------------------
(***************************************************************************)
(* RLangC front end: SourceScanner (compiler/tokenization/scanner.py) and  *)
(* SyntaxBuilder (compiler/syntax/builder.py).                             *)
(*                                                                         *)
(* A source text is a sequence of one-character strings.  The scanner is   *)
(* a state machine with one action per branch of the main loop of          *)
(* tokenize; build_tree is a pure function of the token list and is one    *)
(* action that applies the recursive-descent operators.  `input` records   *)
(* how the source text was composed (its family and its parts).  After one *)
(* invocation of the pipeline ends, a second one may run on a text related *)
(* to the first, and a third one on the first text again; `previous` keeps *)
(* the outcome of the first and the input processed in between.            *)
(*                                                                         *)
(* Python values of dynamic type (token values, optional fields) are       *)
(* one-field records named after their type: PyInt, PyStr, PyBool,         *)
(* PyFloat, PyList and PyNone.                                             *)
(***************************************************************************)
EXTENDS Integers, Sequences, FiniteSets, TLC

VARIABLES code, idx, row, col, output, indent_levels, line_start,
          status, error, cursor, tree, input, previous

vars == <<code, idx, row, col, output, indent_levels, line_start,
          status, error, cursor, tree, input, previous>>

----------------------------------------------------------------------------
(* Python values *)

PyNone == [none |-> TRUE]
PyInt(n) == [int |-> n]
PyStr(s) == [str |-> s]
PyBool(b) == [bool |-> b]
PyFloat(ip, frac) == [float |-> <<ip, frac>>]
PyList(s) == [list |-> s]

\* What peek_ahead and consume_char return past the end of the text (None).
NoChar == "None"

NoError == [type |-> "none"]

----------------------------------------------------------------------------
(* Characters *)

Digits == {"0", "1", "2", "3", "4", "5", "6", "7", "8", "9"}

Letters ==
    {"a", "b", "c", "d", "e", "f", "g", "h", "i", "j", "k", "l", "m",
     "n", "o", "p", "q", "r", "s", "t", "u", "v", "w", "x", "y", "z"}

isdigit(ch) == ch \in Digits

isalpha(ch) == ch \in Letters

isalnum(ch) == isalpha(ch) \/ isdigit(ch)

RECURSIVE Str(_)
\* The Python string made of the characters of s.
Str(s) == IF s = <<>> THEN "" ELSE s[1] \o Str(Tail(s))

DigitVal(ch) ==
    CASE ch = "0" -> 0 [] ch = "1" -> 1 [] ch = "2" -> 2 [] ch = "3" -> 3
      [] ch = "4" -> 4 [] ch = "5" -> 5 [] ch = "6" -> 6 [] ch = "7" -> 7
      [] ch = "8" -> 8 [] ch = "9" -> 9

RECURSIVE int(_)
\* int(buffer) for a run of decimal digits.
int(s) == IF s = <<>> THEN 0 ELSE 10 * int(SubSeq(s, 1, Len(s) - 1)) + DigitVal(s[Len(s)])

RECURSIVE StripZeros(_)
StripZeros(s) ==
    IF s # <<>> /\ s[Len(s)] = "0" THEN StripZeros(SubSeq(s, 1, Len(s) - 1)) ELSE s

DotAt(s) == CHOOSE i \in 1..Len(s) : s[i] = "."

\* float(buffer) for digits with one decimal point: the integer part and the
\* fraction digits without trailing zeros ("1." and "1.0" are the same value).
float(s) ==
    PyFloat(int(SubSeq(s, 1, DotAt(s) - 1)),
            Str(StripZeros(SubSeq(s, DotAt(s) + 1, Len(s)))))

----------------------------------------------------------------------------
(* Tokens *)

CodeToken(kind, text, val, r, c) ==
    [kind |-> kind, text |-> text, val |-> val, row |-> r, col |-> c]

RESERVED_WORDS ==
    [w \in {"def", "let", "const", "if", "else", "elif", "while", "for", "in",
            "return", "break", "continue", "class", "import", "from", "as",
            "pass", "true", "false", "none", "and", "or", "not"} |->
        CASE w = "def" -> "FUNC_DEF"
          [] w = "let" -> "VAR_LET"
          [] w = "const" -> "VAR_CONST"
          [] w = "if" -> "COND_IF"
          [] w = "else" -> "COND_ELSE"
          [] w = "elif" -> "COND_ELIF"
          [] w = "while" -> "LOOP_WHILE"
          [] w = "for" -> "LOOP_FOR"
          [] w = "in" -> "ITER_IN"
          [] w = "return" -> "RET"
          [] w = "break" -> "SKIP"
          [] w = "continue" -> "HALT"
          [] w = "class" -> "STRUCT_CLASS"
          [] w = "import" -> "MOD_IMPORT"
          [] w = "from" -> "MOD_FROM"
          [] w = "as" -> "MOD_AS"
          [] w = "pass" -> "NOOP"
          [] w = "true" -> "BOOL_T"
          [] w = "false" -> "BOOL_F"
          [] w = "none" -> "NULL"
          [] w = "and" -> "LOGIC_AND"
          [] w = "or" -> "LOGIC_OR"
          [] w = "not" -> "LOGIC_NOT"]

two_char_ops ==
    [w \in {"==", "!=", "<=", ">=", "<<", ">>", "**", "//", "->",
            "+=", "-=", "*=", "/="} |->
        CASE w = "==" -> "CMP_EQ"
          [] w = "!=" -> "CMP_NEQ"
          [] w = "<=" -> "CMP_LTE"
          [] w = ">=" -> "CMP_GTE"
          [] w = "<<" -> "BIT_SHL"
          [] w = ">>" -> "BIT_SHR"
          [] w = "**" -> "ARITH_POW"
          [] w = "//" -> "ARITH_FLOORDIV"
          [] w = "->" -> "PUNCT_RARROW"
          [] w = "+=" -> "ASSIGN_ADD"
          [] w = "-=" -> "ASSIGN_SUB"
          [] w = "*=" -> "ASSIGN_MUL"
          [] w = "/=" -> "ASSIGN_DIV"]

single_ops ==
    [w \in {"+", "-", "*", "/", "%", "<", ">", "=", "&", "|", "^", "~",
            "(", ")", "{", "}", "[", "]", ",", ".", ":", ";"} |->
        CASE w = "+" -> "ARITH_ADD"
          [] w = "-" -> "ARITH_SUB"
          [] w = "*" -> "ARITH_MUL"
          [] w = "/" -> "ARITH_DIV"
          [] w = "%" -> "ARITH_MOD"
          [] w = "<" -> "CMP_LT"
          [] w = ">" -> "CMP_GT"
          [] w = "=" -> "ASSIGN"
          [] w = "&" -> "BIT_AND"
          [] w = "|" -> "BIT_OR"
          [] w = "^" -> "BIT_XOR"
          [] w = "~" -> "BIT_NOT"
          [] w = "(" -> "GROUP_LPAREN"
          [] w = ")" -> "GROUP_RPAREN"
          [] w = "{" -> "GROUP_LBRACE"
          [] w = "}" -> "GROUP_RBRACE"
          [] w = "[" -> "GROUP_LSQUARE"
          [] w = "]" -> "GROUP_RSQUARE"
          [] w = "," -> "PUNCT_COMMA"
          [] w = "." -> "PUNCT_DOT"
          [] w = ":" -> "PUNCT_COLON"
          [] w = ";" -> "PUNCT_SEMI"]

----------------------------------------------------------------------------
(* SourceScanner: cursor helpers.  A position is [idx, row, col], idx      *)
(* counting from 0 as in the source.                                       *)

Pos == [idx |-> idx, row |-> row, col |-> col]

peek_ahead(text, i, offset) ==
    LET pos == i + offset
    IN  IF pos < Len(text) THEN text[pos + 1] ELSE NoChar

\* A consume_char that does not reset the column at a line break.
consume_char_no_reset(text, p) ==
    IF p.idx >= Len(text) THEN p
    ELSE IF text[p.idx + 1] = "\n"
         THEN [idx |-> p.idx + 1, row |-> p.row + 1, col |-> p.col + 1]
         ELSE [idx |-> p.idx + 1, row |-> p.row, col |-> p.col + 1]

\* The position after consume_char; the character it returns is
\* peek_ahead(text, p.idx, 0).
consume_char(text, p) ==
    IF p.idx >= Len(text) THEN p
    ELSE IF text[p.idx + 1] = "\n"
         THEN [idx |-> p.idx + 1, row |-> p.row + 1, col |-> 1]
         ELSE [idx |-> p.idx + 1, row |-> p.row, col |-> p.col + 1]

----------------------------------------------------------------------------
(* scan_numeric *)

RECURSIVE numeric_loop(_, _, _, _)
numeric_loop(text, p, buffer, has_decimal) ==
    LET ch == peek_ahead(text, p.idx, 0)
    IN  IF ch # NoChar /\ (isdigit(ch) \/ ch = ".")
        THEN IF ch = "." /\ has_decimal
             THEN [p |-> p, buffer |-> buffer, has_decimal |-> has_decimal]
             ELSE numeric_loop(text, consume_char(text, p), Append(buffer, ch),
                               has_decimal \/ ch = ".")
        ELSE [p |-> p, buffer |-> buffer, has_decimal |-> has_decimal]

scan_numeric(text, p) ==
    LET r == numeric_loop(text, p, <<>>, FALSE)
    IN  [p |-> r.p,
         tok |-> IF r.has_decimal
                 THEN CodeToken("NUM_FLOAT", Str(r.buffer), float(r.buffer), p.row, p.col)
                 ELSE CodeToken("NUM_INT", Str(r.buffer), PyInt(int(r.buffer)), p.row, p.col)]

----------------------------------------------------------------------------
(* scan_text_literal *)

escape_map(quote, next_ch) ==
    CASE next_ch = "n" -> "\n"
      [] next_ch = "t" -> "\t"
      [] next_ch = "r" -> "\r"
      [] OTHER -> next_ch

RECURSIVE text_loop(_, _, _, _)
\* raised: buffer += None, when the text ends right after a backslash.
text_loop(text, p, quote, buffer) ==
    LET ch == peek_ahead(text, p.idx, 0)
    IN  IF ch # NoChar /\ ch # quote
        THEN LET p1 == consume_char(text, p)
             IN  IF ch = "\\"
                 THEN LET next_ch == peek_ahead(text, p1.idx, 0)
                          p2 == consume_char(text, p1)
                      IN  IF next_ch = NoChar
                          THEN [raised |-> TRUE, p |-> p2, buffer |-> buffer]
                          ELSE text_loop(text, p2, quote,
                                         Append(buffer, escape_map(quote, next_ch)))
                 ELSE text_loop(text, p1, quote, Append(buffer, ch))
        ELSE [raised |-> FALSE, p |-> p, buffer |-> buffer]

scan_text_literal(text, p, quote) ==
    LET r == text_loop(text, consume_char(text, p), quote, <<>>)
        pend == IF peek_ahead(text, r.p.idx, 0) = quote
                THEN consume_char(text, r.p) ELSE r.p
    IN  [raised |-> r.raised,
         p |-> pend,
         tok |-> CodeToken("TEXT", Str(r.buffer), PyStr(Str(r.buffer)), p.row, p.col)]

----------------------------------------------------------------------------
(* scan_identifier *)

RECURSIVE identifier_loop(_, _, _)
identifier_loop(text, p, buffer) ==
    LET ch == peek_ahead(text, p.idx, 0)
    IN  IF ch # NoChar /\ (isalnum(ch) \/ ch = "_")
        THEN identifier_loop(text, consume_char(text, p), Append(buffer, ch))
        ELSE [p |-> p, buffer |-> buffer]

scan_identifier(text, p) ==
    LET r == identifier_loop(text, p, <<>>)
        word == Str(r.buffer)
        kind == IF word \in DOMAIN RESERVED_WORDS THEN RESERVED_WORDS[word] ELSE "NAME"
        val == CASE kind = "BOOL_T" -> PyBool(TRUE)
                 [] kind = "BOOL_F" -> PyBool(FALSE)
                 [] kind = "NULL" -> PyNone
                 [] OTHER -> PyStr(word)
    IN  [p |-> r.p, tok |-> CodeToken(kind, word, val, p.row, p.col)]

----------------------------------------------------------------------------
(* handle_line_indent *)

\* An `if` in place of the `while`: one level popped at most.
dedent_once(levels, out, spaces, r) ==
    IF Len(levels) > 1 /\ levels[Len(levels)] > spaces
    THEN [levels |-> SubSeq(levels, 1, Len(levels) - 1),
          out |-> Append(out, CodeToken("DEDENT", "", PyNone, r, 1))]
    ELSE [levels |-> levels, out |-> out]

RECURSIVE dedent_loop(_, _, _, _)
dedent_loop(levels, out, spaces, r) ==
    IF Len(levels) > 1 /\ levels[Len(levels)] > spaces
    THEN dedent_loop(SubSeq(levels, 1, Len(levels) - 1),
                     Append(out, CodeToken("DEDENT", "", PyNone, r, 1)), spaces, r)
    ELSE [levels |-> levels, out |-> out]

handle_line_indent(levels, out, spaces, r) ==
    LET current == levels[Len(levels)]
    IN  IF spaces > current
        THEN [levels |-> Append(levels, spaces),
              out |-> Append(out, CodeToken("INDENT", "", PyNone, r, 1))]
        ELSE dedent_loop(levels, out, spaces, r)

----------------------------------------------------------------------------
(* tokenize: leading whitespace of a line (lines 210-215).  eof: the text   *)
(* ended inside the run, where `None in ' \t'` raises TypeError.           *)

RECURSIVE indent_loop(_, _, _)
indent_loop(text, p, space_count) ==
    LET ch == peek_ahead(text, p.idx, 0)
    IN  IF ch = NoChar
        THEN [eof |-> TRUE, p |-> p, space_count |-> space_count]
        ELSE IF ch \in {" ", "\t"}
             THEN indent_loop(text, consume_char(text, p),
                              IF ch = " " THEN space_count + 1 ELSE space_count + 4)
             ELSE [eof |-> FALSE, p |-> p, space_count |-> space_count]

RECURSIVE comment_loop(_, _)
\* while self.peek_ahead() and self.peek_ahead() != '\n': self.consume_char()
comment_loop(text, p) ==
    LET ch == peek_ahead(text, p.idx, 0)
    IN  IF ch # NoChar /\ ch # "\n" THEN comment_loop(text, consume_char(text, p)) ELSE p


----------------------------------------------------------------------------
(* Syntax tree nodes (builder.py lines 7-173).  TreeNode.__init__ sets the  *)
(* location of every node to (0, 0); nothing assigns it afterwards.        *)

TreeNode_location == <<0, 0>>

NumNode(value, is_float) ==
    [node |-> "NumNode", location |-> TreeNode_location, value |-> value, is_float |-> is_float]

TextNode(value) == [node |-> "TextNode", location |-> TreeNode_location, value |-> value]

BoolNode(value) == [node |-> "BoolNode", location |-> TreeNode_location, value |-> PyBool(value)]

NullNode == [node |-> "NullNode", location |-> TreeNode_location]

VarRefNode(name) == [node |-> "VarRefNode", location |-> TreeNode_location, name |-> name]

BinOpNode(op, lhs, rhs) ==
    [node |-> "BinOpNode", location |-> TreeNode_location, op |-> op, lhs |-> lhs, rhs |-> rhs]

UnOpNode(op, operand) ==
    [node |-> "UnOpNode", location |-> TreeNode_location, op |-> op, operand |-> operand]

InvokeNode(target, args) ==
    [node |-> "InvokeNode", location |-> TreeNode_location, target |-> target, args |-> args]

SubscriptNode(obj, i) ==
    [node |-> "SubscriptNode", location |-> TreeNode_location, obj |-> obj, idx |-> i]

AttrNode(obj, attr) ==
    [node |-> "AttrNode", location |-> TreeNode_location, obj |-> obj, attr |-> attr]

ArrayNode(items) == [node |-> "ArrayNode", location |-> TreeNode_location, items |-> items]

TypeSpec(name) ==
    [node |-> "TypeSpec", location |-> TreeNode_location, name |-> name, optional |-> FALSE]

ExprStmt(expr) == [node |-> "ExprStmt", location |-> TreeNode_location, expr |-> expr]

VarDeclNode(name, type_spec, init_val, immutable) ==
    [node |-> "VarDeclNode", location |-> TreeNode_location, name |-> name,
     type_spec |-> type_spec, init_val |-> init_val, immutable |-> immutable]

\* FuncParam is not a TreeNode: it has no location.
FuncParam(name, type_spec, default) ==
    [node |-> "FuncParam", name |-> name, type_spec |-> type_spec, default |-> default]

FuncDeclNode(name, params, ret_type, body) ==
    [node |-> "FuncDeclNode", location |-> TreeNode_location, name |-> name,
     params |-> params, ret_type |-> ret_type, body |-> body]

RetNode(value) == [node |-> "RetNode", location |-> TreeNode_location, value |-> value]

CondNode(branches, fallback) ==
    [node |-> "CondNode", location |-> TreeNode_location, branches |-> branches,
     fallback |-> fallback]

LoopNode(cond, body) ==
    [node |-> "LoopNode", location |-> TreeNode_location, cond |-> cond, body |-> body]

IterNode(var, iterable, body) ==
    [node |-> "IterNode", location |-> TreeNode_location, var |-> var,
     iterable |-> iterable, body |-> body]

SkipNode == [node |-> "SkipNode", location |-> TreeNode_location]

HaltNode == [node |-> "HaltNode", location |-> TreeNode_location]

NoopNode == [node |-> "NoopNode", location |-> TreeNode_location]

AssignNode(target, op, value) ==
    [node |-> "AssignNode", location |-> TreeNode_location, target |-> target,
     op |-> op, value |-> value]

BlockNode(stmts) == [node |-> "BlockNode", location |-> TreeNode_location, stmts |-> stmts]

ClassDeclNode(name, body) ==
    [node |-> "ClassDeclNode", location |-> TreeNode_location, name |-> name, body |-> body]

ModuleImportNode(mod_name, items, alias) ==
    [node |-> "ModuleImportNode", location |-> TreeNode_location, mod_name |-> mod_name,
     items |-> items, alias |-> alias]

ProgramNode(stmts) == [node |-> "ProgramNode", location |-> TreeNode_location, stmts |-> stmts]

----------------------------------------------------------------------------
(* SyntaxBuilder: cursor helpers.  A parsing operator takes the token list  *)
(* t and the cursor c and gives [err, node, cur]: the exception raised (or  *)
(* NoError), the value returned and the cursor afterwards.                 *)

Ok(node, c) == [err |-> NoError, node |-> node, cur |-> c]

Raise(e, c) == [err |-> e, node |-> PyNone, cur |-> c]

Failed(r) == r.err # NoError

\* raise SyntaxError(f"Expected {TokenKind.name_of(expected_kind)}, got {tok}")
ExpectedError(expected_kind, tok) ==
    [type |-> "SyntaxError", msg |-> "Expected", expected |-> expected_kind, got |-> tok]

\* raise SyntaxError(f"Unexpected token: {tok}")
UnexpectedError(tok) == [type |-> "SyntaxError", msg |-> "Unexpected token", got |-> tok]

current(t, c) == IF c < Len(t) THEN t[c + 1] ELSE PyNone

\* The cursor after move_forward; the token it returns is current(t, c).
move_forward(t, c) ==
    LET tok == current(t, c)
    IN  IF tok # PyNone /\ tok.kind # "END" THEN c + 1 ELSE c

\* A require that does not raise at the end of the tokens.
require_unless_end(t, c, expected_kind) ==
    LET tok == current(t, c)
    IN  IF tok # PyNone /\ tok.kind # "END" /\ tok.kind # expected_kind
        THEN Raise(ExpectedError(expected_kind, tok), c)
        ELSE Ok(tok, move_forward(t, c))

require(t, c, expected_kind) ==
    LET tok == current(t, c)
    IN  IF tok = PyNone \/ tok.kind # expected_kind
        THEN Raise(ExpectedError(expected_kind, tok), c)
        ELSE Ok(tok, move_forward(t, c))

check(t, c, kinds) ==
    LET tok == current(t, c)
    IN  tok # PyNone /\ tok.kind \in kinds

RECURSIVE discard_newlines(_, _)
discard_newlines(t, c) ==
    IF check(t, c, {"NEWLINE"}) THEN discard_newlines(t, move_forward(t, c)) ELSE c

\* A table with the levels of | and & exchanged.
get_precedence_or_above_and(kind) ==
    CASE kind = "LOGIC_OR" -> 1
      [] kind = "LOGIC_AND" -> 2
      [] kind \in {"CMP_EQ", "CMP_NEQ", "CMP_LT", "CMP_LTE", "CMP_GT", "CMP_GTE"} -> 3
      [] kind = "BIT_AND" -> 4
      [] kind = "BIT_XOR" -> 5
      [] kind = "BIT_OR" -> 6
      [] kind \in {"BIT_SHL", "BIT_SHR"} -> 7
      [] kind \in {"ARITH_ADD", "ARITH_SUB"} -> 8
      [] kind \in {"ARITH_MUL", "ARITH_DIV", "ARITH_MOD", "ARITH_FLOORDIV"} -> 9
      [] kind = "ARITH_POW" -> 10
      [] OTHER -> -1

get_precedence(kind) ==
    CASE kind = "LOGIC_OR" -> 1
      [] kind = "LOGIC_AND" -> 2
      [] kind \in {"CMP_EQ", "CMP_NEQ", "CMP_LT", "CMP_LTE", "CMP_GT", "CMP_GTE"} -> 3
      [] kind = "BIT_OR" -> 4
      [] kind = "BIT_XOR" -> 5
      [] kind = "BIT_AND" -> 6
      [] kind \in {"BIT_SHL", "BIT_SHR"} -> 7
      [] kind \in {"ARITH_ADD", "ARITH_SUB"} -> 8
      [] kind \in {"ARITH_MUL", "ARITH_DIV", "ARITH_MOD", "ARITH_FLOORDIV"} -> 9
      [] kind = "ARITH_POW" -> 10
      [] OTHER -> -1

----------------------------------------------------------------------------
(* Expressions *)

RECURSIVE parse_stmt(_, _), parse_block(_, _), block_loop(_, _, _, _)
RECURSIVE parse_precedence(_, _, _), precedence_loop(_, _, _, _)
RECURSIVE parse_unary(_, _), parse_postfix(_, _), postfix_loop(_, _, _)
RECURSIVE parse_call_args(_, _), expr_list_loop(_, _, _)
RECURSIVE parse_atomic(_, _), parse_array(_, _)

\* Sequencing of two parsing steps: an exception raised by the first step
\* propagates, otherwise the rest runs on its result.
Bind(r, Rest(_)) == IF Failed(r) THEN r ELSE Rest(r)

\* A right operand parsed at prec: operators of one level group to the right.
RightPrec_same(prec) == prec

\* The right operand is parsed at prec + 1 (line 499).
RightPrec(prec) == prec + 1

parse_expr(t, c) == parse_precedence(t, c, 0)

parse_precedence(t, c, min_prec) ==
    Bind(parse_unary(t, c), LAMBDA left :
    precedence_loop(t, left.cur, min_prec, left.node))

\* The while loop of parse_precedence (lines 489-500).
precedence_loop(t, c, min_prec, left) ==
    LET tok == current(t, c)
    IN  IF tok = PyNone THEN Ok(left, c)
        ELSE IF get_precedence(tok.kind) < min_prec THEN Ok(left, c)
        ELSE Bind(parse_precedence(t, move_forward(t, c), RightPrec(get_precedence(tok.kind))),
                  LAMBDA right :
             precedence_loop(t, right.cur, min_prec, BinOpNode(tok.text, left, right.node)))

UnaryKinds == {"LOGIC_NOT", "ARITH_SUB", "ARITH_ADD", "BIT_NOT"}

\* A prefix operator whose operand is a whole expression.
parse_unary_loose(t, c) ==
    IF check(t, c, UnaryKinds)
    THEN Bind(parse_expr(t, move_forward(t, c)), LAMBDA operand :
         Ok(UnOpNode(current(t, c).text, operand.node), operand.cur))
    ELSE parse_postfix(t, c)

parse_unary(t, c) ==
    IF check(t, c, UnaryKinds)
    THEN Bind(parse_unary(t, move_forward(t, c)), LAMBDA operand :
         Ok(UnOpNode(current(t, c).text, operand.node), operand.cur))
    ELSE parse_postfix(t, c)

parse_postfix(t, c) ==
    Bind(parse_atomic(t, c), LAMBDA expr :
    postfix_loop(t, expr.cur, expr.node))

\* An `if` in place of the `while`: one postfix operator at most.
postfix_once(t, c, expr) ==
    IF check(t, c, {"GROUP_LPAREN"})
    THEN Bind(parse_call_args(t, move_forward(t, c)), LAMBDA args :
         Bind(require(t, args.cur, "GROUP_RPAREN"), LAMBDA close :
         Ok(InvokeNode(expr, args.node), close.cur)))
    ELSE IF check(t, c, {"GROUP_LSQUARE"})
    THEN Bind(parse_expr(t, move_forward(t, c)), LAMBDA i :
         Bind(require(t, i.cur, "GROUP_RSQUARE"), LAMBDA close :
         Ok(SubscriptNode(expr, i.node), close.cur)))
    ELSE IF check(t, c, {"PUNCT_DOT"})
    THEN Bind(require(t, move_forward(t, c), "NAME"), LAMBDA attr_tok :
         Ok(AttrNode(expr, attr_tok.node.val), attr_tok.cur))
    ELSE Ok(expr, c)

\* The while loop of parse_postfix (lines 537-553).
postfix_loop(t, c, expr) ==
    IF check(t, c, {"GROUP_LPAREN"})
    THEN Bind(parse_call_args(t, move_forward(t, c)), LAMBDA args :
         Bind(require(t, args.cur, "GROUP_RPAREN"), LAMBDA close :
         postfix_loop(t, close.cur, InvokeNode(expr, args.node))))
    ELSE IF check(t, c, {"GROUP_LSQUARE"})
    THEN Bind(parse_expr(t, move_forward(t, c)), LAMBDA i :
         Bind(require(t, i.cur, "GROUP_RSQUARE"), LAMBDA close :
         postfix_loop(t, close.cur, SubscriptNode(expr, i.node))))
    ELSE IF check(t, c, {"PUNCT_DOT"})
    THEN Bind(require(t, move_forward(t, c), "NAME"), LAMBDA attr_tok :
         postfix_loop(t, attr_tok.cur, AttrNode(expr, attr_tok.node.val)))
    ELSE Ok(expr, c)

\* while True: append(parse_expr()); if not check(COMMA): break; move_forward()
\* (lines 564-568 and 624-628).
expr_list_loop(t, c, items) ==
    Bind(parse_expr(t, c), LAMBDA e :
    IF check(t, e.cur, {"PUNCT_COMMA"})
    THEN expr_list_loop(t, move_forward(t, e.cur), Append(items, e.node))
    ELSE Ok(Append(items, e.node), e.cur))

parse_call_args(t, c) ==
    IF check(t, c, {"GROUP_RPAREN"}) THEN Ok(<<>>, c) ELSE expr_list_loop(t, c, <<>>)

parse_atomic(t, c) ==
    LET tok == current(t, c)
        fwd == move_forward(t, c)
    IN  IF tok = PyNone THEN Raise([type |-> "SyntaxError", msg |-> "Unexpected end"], c)
        ELSE CASE tok.kind = "NUM_INT" -> Ok(NumNode(tok.val, FALSE), fwd)
               [] tok.kind = "NUM_FLOAT" -> Ok(NumNode(tok.val, TRUE), fwd)
               [] tok.kind = "TEXT" -> Ok(TextNode(tok.val), fwd)
               [] tok.kind = "BOOL_T" -> Ok(BoolNode(TRUE), fwd)
               [] tok.kind = "BOOL_F" -> Ok(BoolNode(FALSE), fwd)
               [] tok.kind = "NULL" -> Ok(NullNode, fwd)
               [] tok.kind = "NAME" -> Ok(VarRefNode(tok.val), fwd)
               [] tok.kind = "GROUP_LPAREN" ->
                    Bind(parse_expr(t, fwd), LAMBDA expr :
                    Bind(require(t, expr.cur, "GROUP_RPAREN"), LAMBDA close :
                    Ok(expr.node, close.cur)))
               [] tok.kind = "GROUP_LSQUARE" -> parse_array(t, c)
               [] OTHER -> Raise(UnexpectedError(tok), c)

parse_array(t, c) ==
    Bind(require(t, c, "GROUP_LSQUARE"), LAMBDA open :
    Bind(IF check(t, open.cur, {"GROUP_RSQUARE"})
         THEN Ok(<<>>, open.cur)
         ELSE expr_list_loop(t, open.cur, <<>>), LAMBDA items :
    Bind(require(t, items.cur, "GROUP_RSQUARE"), LAMBDA close :
    Ok(ArrayNode(items.node), close.cur))))

----------------------------------------------------------------------------
(* Statements *)

parse_type_spec(t, c) ==
    Bind(require(t, c, "NAME"), LAMBDA name_tok :
    Ok(TypeSpec(name_tok.node.val), name_tok.cur))

\* [: TYPE] of a parameter or a variable (lines 305-308, 335-338).
OptionalType(t, c) ==
    IF check(t, c, {"PUNCT_COLON"}) THEN parse_type_spec(t, move_forward(t, c)) ELSE Ok(PyNone, c)

\* [= EXPR] of a parameter or a variable (lines 310-313, 340-343).
OptionalInit(t, c) ==
    IF check(t, c, {"ASSIGN"}) THEN parse_expr(t, move_forward(t, c)) ELSE Ok(PyNone, c)

RECURSIVE params_loop(_, _, _)
\* The while True loop of parse_func_params (lines 302-319).
params_loop(t, c, params) ==
    Bind(require(t, c, "NAME"), LAMBDA name_tok :
    Bind(OptionalType(t, name_tok.cur), LAMBDA type_spec :
    Bind(OptionalInit(t, type_spec.cur), LAMBDA default :
    IF check(t, default.cur, {"PUNCT_COMMA"})
    THEN params_loop(t, move_forward(t, default.cur),
                     Append(params, FuncParam(name_tok.node.val, type_spec.node, default.node)))
    ELSE Ok(Append(params, FuncParam(name_tok.node.val, type_spec.node, default.node)),
            default.cur))))

parse_func_params(t, c) ==
    IF check(t, c, {"GROUP_RPAREN"}) THEN Ok(<<>>, c) ELSE params_loop(t, c, <<>>)

parse_func_decl(t, c) ==
    Bind(require(t, c, "FUNC_DEF"), LAMBDA kw :
    Bind(require(t, kw.cur, "NAME"), LAMBDA name_tok :
    Bind(require(t, name_tok.cur, "GROUP_LPAREN"), LAMBDA open :
    Bind(parse_func_params(t, open.cur), LAMBDA params :
    Bind(require(t, params.cur, "GROUP_RPAREN"), LAMBDA close :
    Bind(IF check(t, close.cur, {"PUNCT_RARROW"})
         THEN parse_type_spec(t, move_forward(t, close.cur))
         ELSE Ok(PyNone, close.cur), LAMBDA ret_type :
    Bind(require(t, ret_type.cur, "PUNCT_COLON"), LAMBDA colon :
    Bind(parse_block(t, discard_newlines(t, colon.cur)), LAMBDA body :
    Ok(FuncDeclNode(name_tok.node.val, params.node, ret_type.node, body.node),
       body.cur)))))))))

parse_var_decl(t, c) ==
    Bind(require(t, move_forward(t, c), "NAME"), LAMBDA name_tok :
    Bind(OptionalType(t, name_tok.cur), LAMBDA type_spec :
    Bind(OptionalInit(t, type_spec.cur), LAMBDA init_val :
    Ok(VarDeclNode(name_tok.node.val, type_spec.node, init_val.node,
                   current(t, c).kind = "VAR_CONST"),
       discard_newlines(t, init_val.cur)))))

\* EXPR ':' BLOCK after a keyword (lines 351-354, 360-363, 378-381, 389-392):
\* node is <<condition, body>>.
CondBlock(t, c) ==
    Bind(parse_expr(t, c), LAMBDA cond :
    Bind(require(t, cond.cur, "PUNCT_COLON"), LAMBDA colon :
    Bind(parse_block(t, discard_newlines(t, colon.cur)), LAMBDA body :
    Ok(<<cond.node, body.node>>, body.cur))))

RECURSIVE elif_loop(_, _, _)
\* while self.check(TokenKind.COND_ELIF) (lines 358-364).
elif_loop(t, c, branches) ==
    IF check(t, c, {"COND_ELIF"})
    THEN Bind(CondBlock(t, move_forward(t, c)), LAMBDA branch :
         elif_loop(t, branch.cur, Append(branches, branch.node)))
    ELSE Ok(branches, c)

parse_cond(t, c) ==
    Bind(require(t, c, "COND_IF"), LAMBDA kw :
    Bind(CondBlock(t, kw.cur), LAMBDA first :
    Bind(elif_loop(t, first.cur, <<first.node>>), LAMBDA branches :
    IF check(t, branches.cur, {"COND_ELSE"})
    THEN Bind(require(t, move_forward(t, branches.cur), "PUNCT_COLON"), LAMBDA colon :
         Bind(parse_block(t, discard_newlines(t, colon.cur)), LAMBDA fallback :
         Ok(CondNode(branches.node, fallback.node), fallback.cur)))
    ELSE Ok(CondNode(branches.node, PyNone), branches.cur))))

parse_loop(t, c) ==
    Bind(require(t, c, "LOOP_WHILE"), LAMBDA kw :
    Bind(CondBlock(t, kw.cur), LAMBDA cb :
    Ok(LoopNode(cb.node[1], cb.node[2]), cb.cur)))

parse_iter(t, c) ==
    Bind(require(t, c, "LOOP_FOR"), LAMBDA kw :
    Bind(require(t, kw.cur, "NAME"), LAMBDA var_tok :
    Bind(require(t, var_tok.cur, "ITER_IN"), LAMBDA in_kw :
    Bind(CondBlock(t, in_kw.cur), LAMBDA cb :
    Ok(IterNode(var_tok.node.val, cb.node[1], cb.node[2]), cb.cur)))))

\* The token kinds after which `return` has no value (line 400).
RetNoValueKinds == {"NEWLINE", "END"}

parse_ret(t, c) ==
    Bind(require(t, c, "RET"), LAMBDA kw :
    Bind(IF ~check(t, kw.cur, RetNoValueKinds)
         THEN parse_expr(t, kw.cur)
         ELSE Ok(PyNone, kw.cur), LAMBDA val :
    Ok(RetNode(val.node), discard_newlines(t, val.cur))))

parse_class(t, c) ==
    Bind(require(t, c, "STRUCT_CLASS"), LAMBDA kw :
    Bind(require(t, kw.cur, "NAME"), LAMBDA name_tok :
    Bind(require(t, name_tok.cur, "PUNCT_COLON"), LAMBDA colon :
    Bind(parse_block(t, discard_newlines(t, colon.cur)), LAMBDA body :
    Ok(ClassDeclNode(name_tok.node.val, body.node), body.cur)))))

RECURSIVE import_items_loop(_, _, _)
\* The while True loop of parse_import (lines 423-428).
import_items_loop(t, c, items) ==
    Bind(require(t, c, "NAME"), LAMBDA item_tok :
    IF check(t, item_tok.cur, {"PUNCT_COMMA"})
    THEN import_items_loop(t, move_forward(t, item_tok.cur), Append(items, item_tok.node.val))
    ELSE Ok(Append(items, item_tok.node.val), item_tok.cur))

\* [as ALIAS] (lines 430-434, 442-446): node is the alias or None.
ImportAlias(t, c) ==
    IF check(t, c, {"MOD_AS"})
    THEN Bind(require(t, move_forward(t, c), "NAME"), LAMBDA alias_tok :
         Ok(alias_tok.node.val, alias_tok.cur))
    ELSE Ok(PyNone, c)

\* `import M` with an empty item list.
ImportNoItems == PyList(<<>>)

\* The items of `import M`: None (line 449).
ImportWholeModule == PyNone

parse_import(t, c) ==
    IF check(t, c, {"MOD_FROM"})
    THEN Bind(require(t, move_forward(t, c), "NAME"), LAMBDA mod_tok :
         Bind(require(t, mod_tok.cur, "MOD_IMPORT"), LAMBDA kw :
         Bind(import_items_loop(t, kw.cur, <<>>), LAMBDA items :
         Bind(ImportAlias(t, items.cur), LAMBDA alias :
         Ok(ModuleImportNode(mod_tok.node.val, PyList(items.node), alias.node),
            discard_newlines(t, alias.cur))))))
    ELSE Bind(require(t, c, "MOD_IMPORT"), LAMBDA kw :
         Bind(require(t, kw.cur, "NAME"), LAMBDA mod_tok :
         Bind(ImportAlias(t, mod_tok.cur), LAMBDA alias :
         Ok(ModuleImportNode(mod_tok.node.val, ImportWholeModule, alias.node),
            discard_newlines(t, alias.cur)))))

\* while not self.check(closer, END): stmt = parse_stmt(); if stmt: append;
\* discard_newlines() (lines 459-463 and 470-474).
block_loop(t, c, closer, stmts) ==
    IF ~check(t, c, {closer, "END"})
    THEN Bind(parse_stmt(t, c), LAMBDA stmt :
         block_loop(t, discard_newlines(t, stmt.cur), closer,
                    IF stmt.node # PyNone THEN Append(stmts, stmt.node) ELSE stmts))
    ELSE Ok(stmts, c)

parse_block(t, c) ==
    IF check(t, c, {"GROUP_LBRACE"})
    THEN Bind(block_loop(t, discard_newlines(t, move_forward(t, c)), "GROUP_RBRACE", <<>>),
              LAMBDA stmts :
         Bind(require(t, stmts.cur, "GROUP_RBRACE"), LAMBDA close :
         Ok(BlockNode(stmts.node), discard_newlines(t, close.cur))))
    ELSE Bind(require(t, c, "INDENT"), LAMBDA open :
         Bind(block_loop(t, open.cur, "DEDENT", <<>>), LAMBDA stmts :
         Ok(BlockNode(stmts.node),
            IF check(t, stmts.cur, {"DEDENT"}) THEN move_forward(t, stmts.cur) ELSE stmts.cur)))

AssignKinds == {"ASSIGN", "ASSIGN_ADD", "ASSIGN_SUB", "ASSIGN_MUL", "ASSIGN_DIV"}

\* The default path of parse_stmt: expression or assignment (lines 262-273).
ExprOrAssign(t, c) ==
    Bind(parse_expr(t, c), LAMBDA expr :
    IF check(t, expr.cur, AssignKinds)
    THEN Bind(parse_expr(t, move_forward(t, expr.cur)), LAMBDA val :
         Ok(AssignNode(expr.node, current(t, expr.cur).text, val.node),
            discard_newlines(t, val.cur)))
    ELSE Ok(ExprStmt(expr.node), discard_newlines(t, expr.cur)))

\* One statement from cursor c, where the leading newlines are discarded already.
StmtAt(t, c) ==
    LET tok == current(t, c)
        after == discard_newlines(t, move_forward(t, c))
    IN  IF tok = PyNone \/ tok.kind = "END" THEN Ok(PyNone, c)
        ELSE CASE tok.kind = "FUNC_DEF" -> parse_func_decl(t, c)
               [] tok.kind \in {"VAR_LET", "VAR_CONST"} -> parse_var_decl(t, c)
               [] tok.kind = "COND_IF" -> parse_cond(t, c)
               [] tok.kind = "LOOP_WHILE" -> parse_loop(t, c)
               [] tok.kind = "LOOP_FOR" -> parse_iter(t, c)
               [] tok.kind = "RET" -> parse_ret(t, c)
               [] tok.kind = "SKIP" -> Ok(SkipNode, after)
               [] tok.kind = "HALT" -> Ok(HaltNode, after)
               [] tok.kind = "NOOP" -> Ok(NoopNode, after)
               [] tok.kind = "STRUCT_CLASS" -> parse_class(t, c)
               [] tok.kind \in {"MOD_IMPORT", "MOD_FROM"} -> parse_import(t, c)
               [] OTHER -> ExprOrAssign(t, c)

parse_stmt(t, c) == StmtAt(t, discard_newlines(t, c))

RECURSIVE program_loop(_, _, _)
\* The while loop of build_tree (lines 217-221).
program_loop(t, c, stmts) ==
    IF current(t, c) # PyNone /\ current(t, c).kind # "END"
    THEN Bind(parse_stmt(t, c), LAMBDA stmt :
         program_loop(t, discard_newlines(t, stmt.cur),
                      IF stmt.node # PyNone THEN Append(stmts, stmt.node) ELSE stmts))
    ELSE Ok(stmts, c)

build_tree(t) ==
    Bind(program_loop(t, discard_newlines(t, 0), <<>>), LAMBDA stmts :
    Ok(ProgramNode(stmts.node), stmts.cur))

----------------------------------------------------------------------------
(* Source texts *)

RECURSIVE Flatten(_)
\* The concatenation of a sequence of texts.
Flatten(ss) == IF ss = <<>> THEN <<>> ELSE ss[1] \o Flatten(Tail(ss))

\* Every sequence over S of length lo..hi.
SeqsOf(S, lo, hi) == UNION {[1..n -> S] : n \in lo..hi}

Prefixes(text) == {SubSeq(text, 1, n) : n \in 0..Len(text)}

MaxLen == 4

ScanAlphabet == {" ", "\t", "\n", "#", "a", "\"", "\\", "@"}

\* Every text over ScanAlphabet of at most MaxLen characters.
GenericTexts == SeqsOf(ScanAlphabet, 0, MaxLen)

ParserAlphabet == {"(", ")", "1", "+", "["}

\* Every text over ParserAlphabet of at most MaxLen characters.
ParserTexts == SeqsOf(ParserAlphabet, 0, MaxLen)

\* The spellings of the binary operators.
BinaryOperators ==
    {<<"o", "r">>,
     <<"a", "n", "d">>,
     <<"=", "=">>,
     <<"!", "=">>,
     <<"<">>,
     <<"<", "=">>,
     <<">">>,
     <<">", "=">>,
     <<"|">>,
     <<"^">>,
     <<"&">>,
     <<"<", "<">>,
     <<">", ">">>,
     <<"+">>,
     <<"-">>,
     <<"*">>,
     <<"/">>,
     <<"%">>,
     <<"/", "/">>,
     <<"*", "*">>}

OperandSets ==
    {<<<<"a">>, <<"b">>, <<"c">>>>,
     <<<<"1">>, <<"2">>, <<"3">>>>,
     <<<<"2">>, <<"3">>, <<"4">>>>}

\* 'x op1 y op2 z'
ExprText(xs, op1, op2) ==
    xs[1] \o <<" ">> \o op1 \o <<" ">> \o xs[2] \o <<" ">> \o op2 \o <<" ">> \o xs[3]

MaxPostfix == 3

PostfixAtoms == {<<"f">>, <<"a">>}

PostfixSuffixes ==
    {<<"(", "1", ")">>,
     <<"[", "0", "]">>,
     <<".", "x">>,
     <<".", "b">>,
     <<"(", "c", ")">>,
     <<"[", "d", "]">>}

\* An atom followed by at most MaxPostfix postfix operators.
PostfixText(atom, sfx) == atom \o Flatten(sfx)

Headers ==
    {<<"i", "f", " ", "t", "r", "u", "e">>,
     <<"w", "h", "i", "l", "e", " ", "a">>,
     <<"f", "o", "r", " ", "i", " ", "i", "n", " ", "a">>,
     <<"d", "e", "f", " ", "f", "(", ")">>,
     <<"d", "e", "f", " ", "f", "(", "a", ":", " ", "t", ",", " ", "b", " ", "=", " ", "1", ")", " ", "-", ">", " ", "t">>,
     <<"c", "l", "a", "s", "s", " ", "c">>}

\* One-line bodies of simple statements.
Bodies ==
    {<<"x", " ", "=", " ", "1">>,
     <<"x", " ", "+", "=", " ", "1">>,
     <<"p", "a", "s", "s">>,
     <<"b", "r", "e", "a", "k">>,
     <<"c", "o", "n", "t", "i", "n", "u", "e">>,
     <<"r", "e", "t", "u", "r", "n">>,
     <<"r", "e", "t", "u", "r", "n", " ", "1">>,
     <<"a">>,
     <<"l", "e", "t", " ", "x", " ", "=", " ", "1">>,
     <<"c", "o", "n", "s", "t", " ", "y", ":", " ", "t">>,
     <<"i", "m", "p", "o", "r", "t", " ", "o", "s">>,
     <<"\"", "s", "\"">>}

\* 'H: { S }'
BraceForm(h, body) == h \o <<":", " ", "{", " ">> \o body \o <<" ", "}">>

\* 'H:\n    S\n'
IndentForm(h, body) == h \o <<":", "\n", " ", " ", " ", " ">> \o body \o <<"\n">>

MaxItems == 2

ImportNames == {<<"a">>, <<"b">>}

ModuleNames == {<<"o", "s">>}

\* No alias, or the alias c.
Aliases == {<<>>, <<"c">>}

RECURSIVE CommaList(_)
\* 'N1, N2, ..., Nk'
CommaList(names) ==
    IF Len(names) = 1 THEN names[1] ELSE names[1] \o <<",", " ">> \o CommaList(Tail(names))

AsClause(alias) == IF alias = <<>> THEN <<>> ELSE <<" ", "a", "s", " ">> \o alias

\* 'from M import N1, ..., Nk [as A]'
FromText(m, names, alias) ==
    <<"f", "r", "o", "m", " ">> \o m \o <<" ", "i", "m", "p", "o", "r", "t", " ">> \o CommaList(names) \o AsClause(alias)

\* 'import M [as A]'
ImportText(m, alias) == <<"i", "m", "p", "o", "r", "t", " ">> \o m \o AsClause(alias)

MaxPrefix == 2

\* The spellings of the unary prefix operators of the language description.
PrefixOperators == {<<"n", "o", "t">>, <<"!">>, <<"-">>, <<"+">>, <<"~">>}

\* 'p1 p2 ... x' or 'p1 p2 ... x op y' (no op: <<>>).
PrefixedText(prefixes, x, op, y) ==
    Flatten([i \in 1..Len(prefixes) |-> prefixes[i] \o <<" ">>]) \o x
        \o (IF op = <<>> THEN <<>> ELSE <<" ">> \o op \o <<" ">> \o y)

MaxLines == 4

MaxWidth == 3

RECURSIVE Spaces(_)
Spaces(n) == IF n = 0 THEN <<>> ELSE <<" ">> \o Spaces(n - 1)

\* The lines 'a' behind 0..MaxWidth spaces.
IndentedLines == {Spaces(w) \o <<"a">> : w \in 0..MaxWidth}

\* The lines, each followed by a line break.
LinesText(lines) == Flatten([i \in 1..Len(lines) |-> lines[i] \o <<"\n">>])

\* The examples of the testable properties that the families above leave out,
\* and an if/elif/else chain in both block forms.
ExampleTexts ==
    {<<"(", "1", "+", "2">>,
     <<"i", "f", " ", "t", "r", "u", "e", ":", " ", "{", " ", "x", " ", "=", " ", "1", " ", "}">>,
     <<"i", "f", " ", "t", "r", "u", "e", ":", "\n", " ", " ", " ", " ", "x", " ", "=", " ", "1", "\n">>,
     <<"1", ".", ".", "2">>,
     <<"1", ".", "5", "0", " ", "+", " ", "[", "1", ",", " ", "2", "]">>,
     <<"i", "f", " ", "a", ":", " ", "{", " ", "x", " ", "}", " ", "e", "l", "i", "f", " ", "b", ":", " ", "{", " ", "y", " ", "}", " ", "e", "l", "s", "e", ":", " ", "{", " ", "z", " ", "}">>,
     <<"i", "f", " ", "a", ":", "\n", " ", " ", " ", " ", "x", "\n", "e", "l", "i", "f", " ", "b", ":", "\n", " ", " ", " ", " ", "y", "\n", "e", "l", "s", "e", ":", "\n", " ", " ", " ", " ", "z", "\n">>}

\* 'H:\n    S': the indentation form without the final line break.
OpenBlockTexts ==
    {SubSeq(IndentForm(h, body), 1, Len(IndentForm(h, body)) - 1) : h \in Headers, body \in Bodies}

\* Texts cut short at every place.
PrefixTexts ==
    UNION {Prefixes(text) : text \in ExampleTexts
                              \cup {BraceForm(h, <<"x", " ", "=", " ", "1">>) : h \in Headers}
                              \cup {IndentForm(h, <<"x", " ", "=", " ", "1">>) : h \in Headers}
                              \cup {FromText(<<"o", "s">>, <<<<"a">>, <<"b">>>>, <<"c">>)}}

\* An input: the family of the text and the parts it is composed of.
Case(family, parts) == [family |-> family, parts |-> parts]

InputCases ==
    {Case("text", <<text>>) :
        text \in GenericTexts \cup ParserTexts \cup ExampleTexts \cup PrefixTexts
                  \cup OpenBlockTexts}
    \cup {Case("binary", <<xs[1], op1, xs[2], op2, xs[3]>>) :
              xs \in OperandSets, op1 \in BinaryOperators, op2 \in BinaryOperators}
    \cup {Case("postfix", <<atom>> \o sfx) :
              atom \in PostfixAtoms, sfx \in SeqsOf(PostfixSuffixes, 0, MaxPostfix)}
    \cup {Case("brace", <<h, body>>) : h \in Headers, body \in Bodies}
    \cup {Case("indent", <<h, body>>) : h \in Headers, body \in Bodies}
    \cup {Case("from", <<m, alias>> \o names) :
              m \in ModuleNames, alias \in Aliases, names \in SeqsOf(ImportNames, 1, MaxItems)}
    \cup {Case("import", <<m, alias>>) : m \in ModuleNames, alias \in Aliases}
    \cup {Case("lines", lines) : lines \in SeqsOf(IndentedLines, 1, MaxLines)}
    \cup {Case("unary", <<<<"a">>, op, <<"b">>>> \o prefixes) :
              op \in BinaryOperators \cup {<<>>}, prefixes \in SeqsOf(PrefixOperators, 1, MaxPrefix)}

\* The source text of an input.
TextOf(case) ==
    LET p == case.parts
    IN  CASE case.family = "text" -> p[1]
          [] case.family = "binary" -> ExprText(<<p[1], p[3], p[5]>>, p[2], p[4])
          [] case.family = "postfix" -> PostfixText(p[1], Tail(p))
          [] case.family = "brace" -> BraceForm(p[1], p[2])
          [] case.family = "indent" -> IndentForm(p[1], p[2])
          [] case.family = "from" -> FromText(p[1], SubSeq(p, 3, Len(p)), p[2])
          [] case.family = "import" -> ImportText(p[1], p[2])
          [] case.family = "lines" -> LinesText(p)
          [] case.family = "unary" -> PrefixedText(SubSeq(p, 4, Len(p)), p[1], p[2], p[3])

----------------------------------------------------------------------------
(* SourceScanner.__init__ and the first statement of tokenize *)

Init ==
    /\ input \in InputCases
    /\ code = TextOf(input)
    /\ idx = 0
    /\ row = 1
    /\ col = 1
    /\ output = <<>>
    /\ indent_levels = <<0>>
    /\ line_start = TRUE
    /\ status = "scanning"
    /\ error = NoError
    /\ cursor = 0
    /\ tree = PyNone
    /\ previous = PyNone

SetPos(p) == idx' = p.idx /\ row' = p.row /\ col' = p.col

InLoop == status = "scanning" /\ idx < Len(code)

\* The current character in the dispatch part of the loop body.
AtChar == InLoop /\ ~line_start

----------------------------------------------------------------------------
(* tokenize, line start (lines 209-227) *)

\* handle_line_indent called before the test for a blank or comment-only line.
SkipBlankLine_after_indent ==
    /\ InLoop /\ line_start
    /\ LET r == indent_loop(code, Pos, 0)
           ch == peek_ahead(code, r.p.idx, 0)
           h == handle_line_indent(indent_levels, output, r.space_count, r.p.row)
           p1 == IF ch = "#" THEN comment_loop(code, r.p) ELSE r.p
           p2 == IF peek_ahead(code, p1.idx, 0) = "\n" THEN consume_char(code, p1) ELSE p1
       IN  /\ ~r.eof
           /\ ch \in {"\n", "#"}
           /\ SetPos(p2)
           /\ indent_levels' = h.levels
           /\ output' = h.out
    /\ UNCHANGED <<input, previous, code, line_start, status, error, cursor, tree>>

\* A blank or comment-only line whose line break gives a NEWLINE token.
SkipBlankLine_with_token ==
    /\ InLoop /\ line_start
    /\ LET r == indent_loop(code, Pos, 0)
           ch == peek_ahead(code, r.p.idx, 0)
           p1 == IF ch = "#" THEN comment_loop(code, r.p) ELSE r.p
           p2 == IF peek_ahead(code, p1.idx, 0) = "\n" THEN consume_char(code, p1) ELSE p1
       IN  /\ ~r.eof
           /\ ch \in {"\n", "#"}
           /\ SetPos(p2)
           /\ output' = IF p2 # p1
                        THEN Append(output, CodeToken("NEWLINE", "\n", PyStr("\n"), p1.row, p1.col))
                        ELSE output
    /\ UNCHANGED <<input, previous, code, indent_levels, line_start, status, error, cursor, tree>>

\* A blank or comment-only line is skipped.
SkipBlankLine ==
    /\ InLoop /\ line_start
    /\ LET r == indent_loop(code, Pos, 0)
           ch == peek_ahead(code, r.p.idx, 0)
           p1 == IF ch = "#" THEN comment_loop(code, r.p) ELSE r.p
           p2 == IF peek_ahead(code, p1.idx, 0) = "\n" THEN consume_char(code, p1) ELSE p1
       IN  /\ ~r.eof
           /\ ch \in {"\n", "#"}
           /\ SetPos(p2)
    /\ UNCHANGED <<input, previous, code, output, indent_levels, line_start, status, error, cursor, tree>>

\* The text ends inside the leading whitespace: `None in ' \t'` (line 211).
IndentAtEof ==
    /\ InLoop /\ line_start
    /\ LET r == indent_loop(code, Pos, 0)
       IN  /\ r.eof
           /\ SetPos(r.p)
    /\ status' = "scan_raised"
    /\ error' = [type |-> "TypeError"]
    /\ UNCHANGED <<input, previous, code, output, indent_levels, line_start, cursor, tree>>

\* The first token of a line: handle_line_indent, then the dispatch below.
StartLine ==
    /\ InLoop /\ line_start
    /\ LET r == indent_loop(code, Pos, 0)
           ch == peek_ahead(code, r.p.idx, 0)
           h == handle_line_indent(indent_levels, output, r.space_count, r.p.row)
       IN  /\ ~r.eof
           /\ ch \notin {"\n", "#"}
           /\ SetPos(r.p)
           /\ indent_levels' = h.levels
           /\ output' = h.out
    /\ line_start' = FALSE
    /\ UNCHANGED <<input, previous, code, status, error, cursor, tree>>

----------------------------------------------------------------------------
(* tokenize, dispatch on the current character (lines 229-306) *)

SkipWhitespace ==
    /\ AtChar
    /\ peek_ahead(code, idx, 0) \in {" ", "\t"}
    /\ SetPos(consume_char(code, Pos))
    /\ UNCHANGED <<input, previous, code, output, indent_levels, line_start, status, error, cursor, tree>>

ScanNewline ==
    /\ AtChar
    /\ peek_ahead(code, idx, 0) = "\n"
    /\ output' = Append(output, CodeToken("NEWLINE", "\n", PyStr("\n"), row, col))
    /\ SetPos(consume_char(code, Pos))
    /\ line_start' = TRUE
    /\ UNCHANGED <<input, previous, code, indent_levels, status, error, cursor, tree>>

SkipComment ==
    /\ AtChar
    /\ peek_ahead(code, idx, 0) = "#"
    /\ SetPos(comment_loop(code, Pos))
    /\ UNCHANGED <<input, previous, code, output, indent_levels, line_start, status, error, cursor, tree>>

ScanNumber ==
    /\ AtChar
    /\ isdigit(peek_ahead(code, idx, 0))
    /\ LET r == scan_numeric(code, Pos)
       IN  /\ output' = Append(output, r.tok)
           /\ SetPos(r.p)
    /\ UNCHANGED <<input, previous, code, indent_levels, line_start, status, error, cursor, tree>>

\* scan_text_literal returns the TEXT token, or raises TypeError when the
\* text ends right after a backslash (buffer += None, line 160).
ScanText ==
    /\ AtChar
    /\ peek_ahead(code, idx, 0) \in {"\"", "'"}
    /\ LET r == scan_text_literal(code, Pos, peek_ahead(code, idx, 0))
       IN  /\ SetPos(r.p)
           /\ IF r.raised
              THEN /\ status' = "scan_raised"
                   /\ error' = [type |-> "TypeError"]
                   /\ UNCHANGED output
              ELSE /\ output' = Append(output, r.tok)
                   /\ UNCHANGED <<status, error>>
    /\ UNCHANGED <<input, previous, code, indent_levels, line_start, cursor, tree>>

ScanIdentifier ==
    /\ AtChar
    /\ isalpha(peek_ahead(code, idx, 0)) \/ peek_ahead(code, idx, 0) = "_"
    /\ LET r == scan_identifier(code, Pos)
       IN  /\ output' = Append(output, r.tok)
           /\ SetPos(r.p)
    /\ UNCHANGED <<input, previous, code, indent_levels, line_start, status, error, cursor, tree>>

\* The characters the branches above take.
Classified(ch) ==
    \/ ch \in {" ", "\t", "\n", "#", "\"", "'", "_"}
    \/ isdigit(ch)
    \/ isalpha(ch)

\* ch + (self.peek_ahead(1) or '')
two_ch(text, i) ==
    LET nxt == peek_ahead(text, i, 1)
    IN  peek_ahead(text, i, 0) \o (IF nxt = NoChar THEN "" ELSE nxt)

ScanTwoCharOp ==
    /\ AtChar
    /\ ~Classified(peek_ahead(code, idx, 0))
    /\ two_ch(code, idx) \in DOMAIN two_char_ops
    /\ output' = Append(output, CodeToken(two_char_ops[two_ch(code, idx)], two_ch(code, idx),
                                          PyStr(two_ch(code, idx)), row, col))
    /\ SetPos(consume_char(code, consume_char(code, Pos)))
    /\ UNCHANGED <<input, previous, code, indent_levels, line_start, status, error, cursor, tree>>

ScanSingleOp ==
    /\ AtChar
    /\ ~Classified(peek_ahead(code, idx, 0))
    /\ two_ch(code, idx) \notin DOMAIN two_char_ops
    /\ peek_ahead(code, idx, 0) \in DOMAIN single_ops
    /\ output' = Append(output, CodeToken(single_ops[peek_ahead(code, idx, 0)],
                                          peek_ahead(code, idx, 0),
                                          PyStr(peek_ahead(code, idx, 0)), row, col))
    /\ SetPos(consume_char(code, Pos))
    /\ UNCHANGED <<input, previous, code, indent_levels, line_start, status, error, cursor, tree>>

\* raise SyntaxError(f"Unknown character '{ch}' at {self.row}:{self.col}")
LexicalError(ch, r, c) ==
    [type |-> "SyntaxError", msg |-> "Unknown character", ch |-> ch, row |-> r, col |-> c]

UnknownChar ==
    /\ AtChar
    /\ ~Classified(peek_ahead(code, idx, 0))
    /\ two_ch(code, idx) \notin DOMAIN two_char_ops
    /\ peek_ahead(code, idx, 0) \notin DOMAIN single_ops
    /\ status' = "scan_raised"
    /\ error' = LexicalError(peek_ahead(code, idx, 0), row, col)
    /\ UNCHANGED <<input, previous, code, idx, row, col, output, indent_levels, line_start, cursor, tree>>

----------------------------------------------------------------------------
(* tokenize, after the loop (lines 308-314) *)

\* A tokenize that forgets the flush: the open levels stay open at the end.
close_indentation_missing(levels, out, r, c) == [levels |-> levels, out |-> out]

RECURSIVE close_indentation(_, _, _, _)
close_indentation(levels, out, r, c) ==
    IF Len(levels) > 1
    THEN close_indentation(SubSeq(levels, 1, Len(levels) - 1),
                           Append(out, CodeToken("DEDENT", "", PyNone, r, c)), r, c)
    ELSE [levels |-> levels, out |-> out]

Finish ==
    /\ status = "scanning"
    /\ idx >= Len(code)
    /\ LET f == close_indentation(indent_levels, output, row, col)
       IN  /\ indent_levels' = f.levels
           /\ output' = Append(f.out, CodeToken("END", "", PyNone, row, col))
    /\ status' = "scanned"
    /\ UNCHANGED <<input, previous, code, idx, row, col, line_start, error, cursor, tree>>

----------------------------------------------------------------------------
(* SyntaxBuilder(tokens).build_tree() on the token list tokenize returned *)

BuildTree ==
    /\ status = "scanned"
    /\ LET r == build_tree(output)
       IN  /\ cursor' = r.cur
           /\ error' = r.err
           /\ tree' = r.node
           /\ status' = IF Failed(r) THEN "parse_raised" ELSE "parsed"
    /\ UNCHANGED <<input, previous, code, idx, row, col, output, indent_levels, line_start>>

----------------------------------------------------------------------------
(* Further invocations: SourceScanner(text) and SyntaxBuilder(tokens) are *)
(* constructed anew (scanner.py lines 105-111, builder.py lines 181-183).  *)

Ended == status \in {"scan_raised", "parsed", "parse_raised"}

\* The text followed by one line break, unless it ends with one already.
WithFinalNewline(text) ==
    IF text # <<>> /\ text[Len(text)] = "\n" THEN {} ELSE {Case("text", <<text \o <<"\n">>>>)}

\* The inputs the second invocation runs on: the same input again, the
\* indentation form of a block that the first invocation read in brace form,
\* and the text of the first invocation followed by a line break.
RelatedCases(case) ==
    {case}
        \cup (IF case.family = "brace" THEN {Case("indent", case.parts)} ELSE {})
        \cup WithFinalNewline(TextOf(case))

\* A scanner whose token list is the one of the scanner before it.
SourceScanner_shared_output(before) ==
    [idx |-> 0, row |-> 1, col |-> 1, output |-> before.output, indent_levels |-> <<0>>]

\* SourceScanner.__init__: the fields of a new scanner; nothing of the
\* scanner before it is kept.
SourceScanner_init(before) ==
    [idx |-> 0, row |-> 1, col |-> 1, output |-> <<>>, indent_levels |-> <<0>>]

\* SourceScanner(text) and the first statement of tokenize, for the text of case.
Start(case) ==
    LET self == SourceScanner_init([idx |-> idx, row |-> row, col |-> col, output |-> output,
                                    indent_levels |-> indent_levels])
    IN  /\ input' = case
        /\ code' = TextOf(case)
        /\ idx' = self.idx
        /\ row' = self.row
        /\ col' = self.col
        /\ output' = self.output
        /\ indent_levels' = self.indent_levels
        /\ line_start' = TRUE
        /\ status' = "scanning"
        /\ error' = NoError
        /\ cursor' = 0
        /\ tree' = PyNone

\* The second invocation, on an input related to the first.
Reinvoke ==
    /\ Ended
    /\ previous = PyNone
    /\ previous' = [input |-> input, status |-> status, output |-> output,
                    error |-> error, tree |-> tree, between |-> PyNone]
    /\ \E case \in RelatedCases(input) : Start(case)

\* The third invocation: the input of the first again, after another input,
\* which `between` records.
Rerun ==
    /\ Ended
    /\ previous # PyNone
    /\ input # previous.input
    /\ Start(previous.input)
    /\ previous' = [previous EXCEPT !.between = input]

----------------------------------------------------------------------------

Next ==
    \/ SkipBlankLine
    \/ IndentAtEof
    \/ StartLine
    \/ SkipWhitespace
    \/ ScanNewline
    \/ SkipComment
    \/ ScanNumber
    \/ ScanText
    \/ ScanIdentifier
    \/ ScanTwoCharOp
    \/ ScanSingleOp
    \/ UnknownChar
    \/ Finish
    \/ BuildTree
    \/ Reinvoke
    \/ Rerun

Spec == Init /\ [][Next]_vars

----------------------------------------------------------------------------
(* Properties of the scanner *)

\* tokenize returned: the token list is in output.
Returned == status \in {"scanned", "parsed", "parse_raised"}

CountKind(toks, kind) == Cardinality({i \in DOMAIN toks : toks[i].kind = kind})

\* C1: whenever tokenize returns, the token list holds exactly one END token,
\* that token is its last element, and it holds as many INDENT tokens as
\* DEDENT tokens (the DEDENTs of the final flush come before END).
C1_OneEndBalancedIndent ==
    Returned =>
        /\ CountKind(output, "END") = 1
        /\ output[Len(output)].kind = "END"
        /\ CountKind(output, "INDENT") = CountKind(output, "DEDENT")

\* tokenize returned a list with a DEDENT from a line of smaller width and
\* two DEDENTs from the final flush.
C1_FlushedDedent ==
    /\ status = "scanned"
    /\ CountKind(output, "INDENT") = 3
    /\ Len(output) >= 4
    /\ output[Len(output) - 1].kind = "DEDENT"
    /\ output[Len(output) - 2].kind = "DEDENT"
    /\ output[Len(output) - 3].kind = "NEWLINE"

\* The characters that start no lexical class: not a blank, a line break, '#',
\* a digit, a quote, an identifier start, nor the first character of an entry
\* of the two-character or of the one-character operator table.
Unrecognized(ch) ==
    /\ ch \notin {" ", "\t", "\n", "#", "\"", "'", "_"}
    /\ ch \notin Digits
    /\ ch \notin Letters
    /\ ch \notin {"=", "!", "<", ">", "*", "/", "-", "+"}
    /\ ch \notin {"%", "&", "|", "^", "~", "(", ")", "{", "}", "[", "]", ",", ".", ":", ";"}

\* C2: tokenize fails in one way only, with the lexical error for a character
\* of no recognized class; in particular it does not fail on a last line made
\* of blanks alone.
C2_OnlyLexicalFailure ==
    status = "scan_raised" =>
        /\ error.type = "SyntaxError"
        /\ error.msg = "Unknown character"
        /\ Unrecognized(error.ch)

RECURSIVE Closed(_, _, _)
\* The string literal whose content starts at index i (from 0) has a closing
\* quote; a backslash takes the character after it.
Closed(text, i, quote) ==
    IF i >= Len(text) THEN FALSE
    ELSE IF text[i + 1] = quote THEN TRUE
    ELSE IF text[i + 1] = "\\" THEN Closed(text, i + 2, quote)
    ELSE Closed(text, i + 1, quote)

\* C3: at the opening quote of a string literal that the text does not close,
\* the scanner appends one TEXT token made of the rest of the text and raises
\* no error, also when the last character of the text is a backslash.
C3_UnterminatedTextNoError ==
    [][(AtChar /\ code[idx + 1] \in {"\"", "'"} /\ ~Closed(code, idx + 1, code[idx + 1]))
        => /\ status' = "scanning"
           /\ idx' = Len(code)
           /\ Len(output') = Len(output) + 1
           /\ output'[Len(output')].kind = "TEXT"
           /\ output'[Len(output')].row = row
           /\ output'[Len(output')].col = col]_vars

\* The row of the character at index i (from 0): one more than the line
\* breaks before it.
RowOf(text, i) == 1 + Cardinality({k \in 1..i : text[k] = "\n"})

\* The column of the character at index i (from 0): one more than the
\* characters before it on its line.
ColOf(text, i) == 1 + Cardinality({k \in 1..i : \A j \in k..i : text[j] # "\n"})

\* C8: when the scanner is at a character of no recognized class, tokenize
\* raises the lexical error that names this character, its row and its column,
\* and does not return a token list.
C8_LexicalErrorNamesPosition ==
    [][(AtChar /\ Unrecognized(code[idx + 1]))
        => /\ status' = "scan_raised"
           /\ error' = LexicalError(code[idx + 1], RowOf(code, idx), ColOf(code, idx))]_vars

\* The lexical error was raised for a character after the first line and
\* after the first column.
C8_ErrorOnLaterLine ==
    /\ status = "scan_raised"
    /\ error.type = "SyntaxError"
    /\ error.row > 1
    /\ error.col > 1
    /\ Unrecognized(error.ch)

\* The line breaks of the text, as indices from 1.
LineBreaks(text) == {k \in 1..Len(text) : text[k] = "\n"}

\* The line that ends at index k is blank or holds a comment only: blanks up
\* to the line break or up to a '#'.
BlankOrCommentLine(text, k) ==
    \E j \in 1..k :
        /\ j = k \/ text[j] = "#"
        /\ \A b \in LineBreaks(text) : ~(j <= b /\ b < k)
        /\ \A i \in 1..(j - 1) : text[i] \in {" ", "\t"} \/ (\E b \in LineBreaks(text) : i <= b /\ b < j)

\* No line break is inside a string literal: the text has no quote before
\* its last line break.
NoBreakInString(text) ==
    \A k \in LineBreaks(text) : \A i \in 1..k : text[i] \notin {"\"", "'"}

\* C13 as stated: when tokenize returns on a text without a line break inside
\* a string literal, the token list holds as many NEWLINE tokens as the text
\* holds line breaks, those of blank and of comment-only lines included.
C13_NewlinePerLineBreak ==
    (Returned /\ NoBreakInString(code)) =>
        CountKind(output, "NEWLINE") = Cardinality(LineBreaks(code))

\* C13, amended: when tokenize returns on a text without a line break inside
\* a string literal, the token list holds one NEWLINE token per line break
\* that ends a line with a token on it; the line break of a blank line or of
\* a comment-only line gives no token.
C13_NewlinePerTokenLine ==
    (Returned /\ NoBreakInString(code)) =>
        CountKind(output, "NEWLINE")
            = Cardinality({k \in LineBreaks(code) : ~BlankOrCommentLine(code, k)})

\* tokenize returned on a text with a comment-only line and a line that
\* holds a token.
C13_CommentLineThenTokenLine ==
    /\ status = "scanned"
    /\ code = <<"#", "\n", "a", "\n">>
    /\ CountKind(output, "NEWLINE") = 1

RECURSIVE LeadingBlanks(_, _)
\* The number of blanks from index i (from 0) on.
LeadingBlanks(text, i) ==
    IF i < Len(text) /\ text[i + 1] \in {" ", "\t"} THEN 1 + LeadingBlanks(text, i + 1) ELSE 0

\* The width of the blanks text[i + 1 .. i + n]: a space is 1, a tab is 4.
WidthOf(text, i, n) ==
    Cardinality({k \in (i + 1)..(i + n) : text[k] = " "})
        + 4 * Cardinality({k \in (i + 1)..(i + n) : text[k] = "\t"})

\* The scanner is at the start of a line that holds a token: after its
\* leading blanks comes a character that is neither a line break nor '#'.
AtTokenLine ==
    /\ InLoop /\ line_start
    /\ idx + LeadingBlanks(code, idx) < Len(code)
    /\ code[idx + LeadingBlanks(code, idx) + 1] \notin {"\n", "#"}

\* n tokens of one kind appended to the token list.
Appended(n, kind) ==
    /\ Len(output') = Len(output) + n
    /\ SubSeq(output', 1, Len(output)) = output
    /\ \A i \in (Len(output) + 1)..Len(output') : output'[i].kind = kind

\* C15: at the start of a line of width w that holds a token, with t the top
\* of the indentation stack: if w > t, w is pushed and one INDENT is
\* appended; if w < t, exactly the levels greater than w are popped, one
\* DEDENT is appended per pop and the bottom 0 stays; if w = t, nothing is
\* pushed, popped or appended; no error is raised, also when w matches no
\* level of the stack, and afterwards the top of the stack is at most w.
C15_LineIndentSteps ==
    [][AtTokenLine =>
        LET w == WidthOf(code, idx, LeadingBlanks(code, idx))
            t == indent_levels[Len(indent_levels)]
            kept == SelectSeq(indent_levels, LAMBDA level : level <= w)
        IN  /\ status' = "scanning"
            /\ w > t => indent_levels' = Append(indent_levels, w) /\ Appended(1, "INDENT")
            /\ w < t => /\ indent_levels' = kept
                        /\ Appended(Len(indent_levels) - Len(kept), "DEDENT")
                        /\ indent_levels'[1] = 0
            /\ w = t => indent_levels' = indent_levels /\ output' = output
            /\ indent_levels'[Len(indent_levels')] <= w]_vars

\* A line of width 2 came after lines of widths 0, 1 and 3: the level 3 was
\* popped and the top 1 is below the width, which matches no level.
C15_DedentToUnrecordedWidth ==
    /\ input = Case("lines", <<<<"a">>, <<" ", "a">>, <<" ", " ", " ", "a">>, <<" ", " ", "a">>>>)
    /\ status = "scanning"
    /\ ~line_start
    /\ row = 4
    /\ indent_levels = <<0, 1>>
    /\ output[Len(output)].kind = "DEDENT"

\* The scanner is at the start of a blank or comment-only line: after its
\* leading blanks comes a line break, a '#' or the end of the text.
AtSkippedLine ==
    /\ InLoop /\ line_start
    /\ \/ idx + LeadingBlanks(code, idx) >= Len(code)
       \/ code[idx + LeadingBlanks(code, idx) + 1] \in {"\n", "#"}

\* C16: scanning a blank or comment-only line, whatever the width of its
\* leading blanks, leaves the indentation stack as it is and appends no
\* token to the output.
C16_SkippedLineKeepsStackAndOutput ==
    [][AtSkippedLine => indent_levels' = indent_levels /\ output' = output]_vars

\* A comment-only line of width 0 was scanned under the level 1: no DEDENT
\* follows the NEWLINE of the line before it and the level is still there.
C16_CommentLineBelowLevel ==
    /\ code = <<" ", "a", "\n", "#">>
    /\ status = "scanning"
    /\ idx = Len(code)
    /\ line_start
    /\ indent_levels = <<0, 1>>
    /\ output[Len(output)].kind = "NEWLINE"

\* C18: two consecutive lines that hold a token and have the same width have
\* no INDENT and no DEDENT between them in the output, whatever lines come
\* before them, a dedent to a width that matches no level included.
C18_SameWidthNoIndentBetween ==
    (Returned /\ input.family = "lines") =>
        \A i \in 1..(Len(input.parts) - 1) :
            input.parts[i] = input.parts[i + 1] =>
                ~\E k \in 1..Len(output) :
                    /\ output[k].kind \in {"INDENT", "DEDENT"}
                    /\ output[k].row = i + 1

----------------------------------------------------------------------------
(* Properties of the parser *)

\* The node of a one-token operand: a number or a name.
Operand(x) ==
    IF x[1] \in Digits THEN NumNode(PyInt(int(x)), FALSE) ELSE VarRefNode(PyStr(Str(x)))

\* The precedence table, lowest level first.
PrecedenceLevels ==
    <<{"or"}, {"and"}, {"==", "!=", "<", "<=", ">", ">="}, {"|"}, {"^"}, {"&"},
      {"<<", ">>"}, {"+", "-"}, {"*", "/", "%", "//"}, {"**"}>>

LevelOf(op) == CHOOSE n \in 1..Len(PrecedenceLevels) : Str(op) \in PrecedenceLevels[n]

\* The program made of one expression statement.
OneExpr(expr) == ProgramNode(<<ExprStmt(expr)>>)

\* op(lhs, rhs)
Bin(op, lhs, rhs) == BinOpNode(Str(op), lhs, rhs)

\* C4: for two binary operators of different levels, 'x lo y hi z' parses to
\* lo(x, hi(y, z)) and 'x hi y lo z' parses to lo(hi(x, y), z).
C4_PrecedenceRespected ==
    (Ended /\ input.family = "binary" /\ LevelOf(input.parts[2]) # LevelOf(input.parts[4])) =>
        LET x == Operand(input.parts[1])
            y == Operand(input.parts[3])
            z == Operand(input.parts[5])
            op1 == input.parts[2]
            op2 == input.parts[4]
        IN  /\ status = "parsed"
            /\ tree = IF LevelOf(op1) < LevelOf(op2)
                      THEN OneExpr(Bin(op1, x, Bin(op2, y, z)))
                      ELSE OneExpr(Bin(op2, Bin(op1, x, y), z))

\* '1 + 2 * 3' is parsed.
C4_OnePlusTwoTimesThree ==
    /\ status = "parsed"
    /\ input = Case("binary", <<<<"1">>, <<"+">>, <<"2">>, <<"*">>, <<"3">>>>)
    /\ tree.stmts[1].expr.rhs.op = "*"

\* C5: for two binary operators of the same level, the power operator
\* included, 'x op1 y op2 z' parses to op2(op1(x, y), z).
C5_LeftAssociative ==
    (Ended /\ input.family = "binary" /\ LevelOf(input.parts[2]) = LevelOf(input.parts[4])) =>
        /\ status = "parsed"
        /\ tree = OneExpr(Bin(input.parts[4],
                              Bin(input.parts[2], Operand(input.parts[1]), Operand(input.parts[3])),
                              Operand(input.parts[5])))

\* '2 ** 3 ** 4' is parsed.
C5_PowerTwice ==
    /\ status = "parsed"
    /\ input = Case("binary", <<<<"2">>, <<"*", "*">>, <<"3">>, <<"*", "*">>, <<"4">>>>)
    /\ tree.stmts[1].expr.lhs.op = "**"

\* The node of one postfix operator '(x)', '[x]' or '.x' on expr.
Suffixed(expr, sfx) ==
    CASE sfx[1] = "(" -> InvokeNode(expr, <<Operand(<<sfx[2]>>)>>)
      [] sfx[1] = "[" -> SubscriptNode(expr, Operand(<<sfx[2]>>))
      [] sfx[1] = "." -> AttrNode(expr, PyStr(sfx[2]))

RECURSIVE Postfixed(_, _)
\* The postfix operators applied from left to right, each to the node so far.
Postfixed(expr, suffixes) ==
    IF suffixes = <<>> THEN expr
    ELSE Postfixed(Suffixed(expr, suffixes[1]), Tail(suffixes))

\* C6: an atom followed by postfix operators parses to the operators applied
\* from left to right, each wrapping the expression built so far.
C6_PostfixChainsLeftToRight ==
    (Ended /\ input.family = "postfix") =>
        /\ status = "parsed"
        /\ tree = OneExpr(Postfixed(Operand(input.parts[1]), Tail(input.parts)))

\* 'f(1)[0].x' is parsed.
C6_CallSubscriptAttribute ==
    /\ status = "parsed"
    /\ input = Case("postfix", <<<<"f">>, <<"(", "1", ")">>, <<"[", "0", "]">>, <<".", "x">>>>)
    /\ tree.stmts[1].expr.node = "AttrNode"
    /\ tree.stmts[1].expr.obj.obj.node = "InvokeNode"

\* C7: the brace form 'H: { S }' and the indentation form 'H:\n    S\n' of one
\* block both parse, to the same tree.
C7_BraceAndIndentSameTree ==
    (Ended /\ previous # PyNone /\ previous.input.family = "brace"
           /\ input = Case("indent", previous.input.parts)) =>
        /\ previous.status = "parsed"
        /\ status = "parsed"
        /\ tree = previous.tree

\* C9: build_tree ends in one of two ways: it returns a ProgramNode with every
\* token up to END consumed, or it raises a syntax error at the token where
\* the grammar cannot continue and returns no tree; '(1+2' raises the error
\* that expects the closing parenthesis at the END token.
C9_ProgramOrSyntaxError ==
    /\ status = "parsed" =>
            /\ tree.node = "ProgramNode"
            /\ error = NoError
            /\ cursor = Len(output) - 1
    /\ status = "parse_raised" =>
            /\ error.type = "SyntaxError"
            /\ error.got = current(output, cursor)
            /\ tree = PyNone
    /\ (Ended /\ code = <<"(", "1", "+", "2">>) =>
            /\ status = "parse_raised"
            /\ error = ExpectedError("GROUP_RPAREN", CodeToken("END", "", PyNone, 1, 5))

\* '(1+2' raised at the END token.
C9_UnclosedParenthesis ==
    /\ status = "parse_raised"
    /\ code = <<"(", "1", "+", "2">>
    /\ current(output, cursor).kind = "END"

\* The alias of an import: the name after 'as', or None.
AliasOf(alias) == IF alias = <<>> THEN PyNone ELSE PyStr(Str(alias))

\* C10: 'from M import N1, ..., Nk [as A]' parses to the import of module M
\* with the items N1..Nk in source order and the alias A or None;
\* 'import M [as A]' parses to the import of M with None as items and the
\* alias A or None.
C10_ImportForms ==
    /\ (Ended /\ input.family = "from") =>
            LET names == SubSeq(input.parts, 3, Len(input.parts))
            IN  /\ status = "parsed"
                /\ tree = ProgramNode(<<ModuleImportNode(
                              PyStr(Str(input.parts[1])),
                              PyList([i \in 1..Len(names) |-> PyStr(Str(names[i]))]),
                              AliasOf(input.parts[2]))>>)
    /\ (Ended /\ input.family = "import") =>
            /\ status = "parsed"
            /\ tree = ProgramNode(<<ModuleImportNode(PyStr(Str(input.parts[1])), PyNone,
                                                     AliasOf(input.parts[2]))>>)

\* 'from os import a, b as c' and then nothing else is parsed.
C10_FromTwoItemsWithAlias ==
    /\ status = "parsed"
    /\ input = Case("from", <<<<"o", "s">>, <<"c">>, <<"a">>, <<"b">>>>)
    /\ Len(tree.stmts[1].items.list) = 2

RECURSIVE Prefixed(_, _)
\* The prefix operators applied to expr, the one next to it first.
Prefixed(prefixes, expr) ==
    IF prefixes = <<>> THEN expr
    ELSE UnOpNode(Str(prefixes[1]), Prefixed(Tail(prefixes), expr))

\* The tree of 'p1 p2 ... x' or of 'p1 p2 ... x op y': the prefixes bind
\* tighter than op.
PrefixedTree(case) ==
    LET p == case.parts
        operand == Prefixed(SubSeq(p, 4, Len(p)), Operand(p[1]))
    IN  OneExpr(IF p[2] = <<>> THEN operand ELSE Bin(p[2], operand, Operand(p[3])))

\* C12 as stated: every stack of the prefixes 'not', '!', '-', '+' and '~' in
\* front of an operand is scanned and parsed to unary-operation nodes, which
\* bind tighter than a binary operator after the operand.
C12_EveryPrefixSpelling ==
    (Ended /\ input.family = "unary") =>
        /\ status = "parsed"
        /\ tree = PrefixedTree(input)

\* The prefixes of an input of the unary family.
PrefixesOf(case) == {case.parts[i] : i \in 4..Len(case.parts)}

\* C12, amended: every stack of the prefixes 'not', '-', '+' and '~' in front
\* of an operand is scanned and parsed to unary-operation nodes, which bind
\* tighter than a binary operator after the operand; for a '!' that no '='
\* follows the scanner raises the lexical error.
C12_PrefixSpellingsButBang ==
    (Ended /\ input.family = "unary") =>
        IF <<"!">> \in PrefixesOf(input)
        THEN /\ status = "scan_raised"
             /\ error.type = "SyntaxError"
             /\ error.ch = "!"
        ELSE /\ status = "parsed"
             /\ tree = PrefixedTree(input)

\* '- a ** b' is parsed: the power node has the negation as its left operand.
C12_NegatedBaseOfPower ==
    /\ status = "parsed"
    /\ input = Case("unary", <<<<"a">>, <<"*", "*">>, <<"b">>, <<"-">>>>)
    /\ tree.stmts[1].expr.op = "**"
    /\ tree.stmts[1].expr.lhs.node = "UnOpNode"

\* The first token that is not a NEWLINE: the token that starts the first
\* statement.
FirstToken(toks) ==
    toks[CHOOSE i \in DOMAIN toks :
            /\ toks[i].kind # "NEWLINE"
            /\ \A j \in 1..(i - 1) : toks[j].kind = "NEWLINE"]

\* The position of a token, as a node is to carry it.
PositionOf(tok) == <<tok.row, tok.col>>

\* C14: the nodes of the tree build_tree returns carry the row and the column
\* of the token that starts them: the first statement and, when it is an
\* expression statement, its expression carry the position of the first
\* token, and the second statement carries another position.
C14_NodesCarryPosition ==
    (status = "parsed" /\ tree.stmts # <<>>) =>
        /\ tree.stmts[1].location = PositionOf(FirstToken(output))
        /\ tree.stmts[1].node = "ExprStmt" /\ tree.stmts[1].expr.node \in {"VarRefNode", "NumNode"}
              => tree.stmts[1].expr.location = PositionOf(FirstToken(output))
        /\ Len(tree.stmts) > 1 => tree.stmts[2].location # tree.stmts[1].location

----------------------------------------------------------------------------
(* Properties of the whole pipeline *)

\* C11: an invocation on the text of the first invocation, directly after it
\* or after another text was processed in between, ends as the first did:
\* the same token list and the same tree, or the same failure.
C11_SameOutcomeOnSameText ==
    (Ended /\ previous # PyNone /\ input = previous.input) =>
        /\ status = previous.status
        /\ error = previous.error
        /\ output = previous.output
        /\ tree = previous.tree

\* The first text was parsed to a tree again after another text in between.
C11_ParsedAgainAfterAnother ==
    /\ status = "parsed"
    /\ previous # PyNone
    /\ input = previous.input
    /\ previous.between # PyNone
    /\ previous.between # input
    /\ Len(tree.stmts) >= 1

\* No quote character in the text, so no string literal is open at its end.
NoQuote(text) == \A i \in 1..Len(text) : text[i] \notin {"\"", "'"}

\* C17: the outcome of scanning and parsing does not depend on a final line
\* break: a text that does not end with a line break nor inside a string
\* literal, and that text followed by one line break, both give the same
\* tree or both fail.
C17_FinalNewlineIndifferent ==
    (/\ Ended
     /\ previous # PyNone
     /\ input = Case("text", <<TextOf(previous.input) \o <<"\n">>>>)
     /\ NoQuote(TextOf(previous.input))) =>
        /\ (status = "parsed") = (previous.status = "parsed")
        /\ status = "parsed" => tree = previous.tree

=============================================================================
